---- MODULE Spec2Model ----
(***************************************************************************)
(* A model of datasets/image.py: the Image class (a calibrated camera      *)
(* view: K, R, T, bitmap, depth, mask) with its operations to, scale, pad, *)
(* in_range_mask, fetch_depth, unproject and project, and the helpers      *)
(* _rescale and _pad.                                                      *)
(*                                                                         *)
(* Tensors are objects on a heap; an Image holds references to them (0 is  *)
(* None), as Python attributes do.  Numbers are exact rationals extended   *)
(* with NaN and +-inf; a float32 keeps a 24-bit significand, so an integer *)
(* above 2^24 is rounded when it is converted to float32.                  *)
(***************************************************************************)
EXTENDS Integers, Sequences, FiniteSets, TLC

VARIABLES heap, views, ret, nops

vars == <<heap, views, ret, nops>>

(***************************************************************************)
(* Bounds of the model.                                                    *)
(***************************************************************************)
\* largest height and width of a constructed raster
MaxDim == 2
\* number of scale / pad / to calls in one run
MaxOps == 2

(***************************************************************************)
(* Numbers: [k, n, d] is n/d when k = "fin" (d > 0, lowest terms), NaN     *)
(* when k = "nan", and n * infinity (n = 1 or -1) when k = "inf".          *)
(***************************************************************************)
Abs(x) == IF x < 0 THEN -x ELSE x

\* Op applied to the value of x, x being evaluated once
Let(x, Op(_)) == CHOOSE z \in {Op(v) : v \in {x}} : TRUE

RECURSIVE GCD(_, _)
GCD(a, b) == IF b = 0 THEN a ELSE GCD(b, a % b)

Fin(n, d) ==
    LET s == IF d < 0 THEN -1 ELSE 1
        g == GCD(Abs(n), Abs(d))
    IN  [k |-> "fin", n |-> (s * n) \div g, d |-> (s * d) \div g]

Num(i) == [k |-> "fin", n |-> i, d |-> 1]

NaN == [k |-> "nan", n |-> 0, d |-> 1]

Inf(s) == [k |-> "inf", n |-> s, d |-> 1]

Sgn(a) == IF a.n > 0 THEN 1 ELSE IF a.n < 0 THEN -1 ELSE 0

IsNaN(a) == a.k = "nan"

\* torch.isfinite
IsFinite(a) == a.k = "fin"

Neg(a) == [a EXCEPT !.n = -a.n]

Add(a, b) ==
    IF IsNaN(a) \/ IsNaN(b) THEN NaN
    ELSE IF a.k = "inf" /\ b.k = "inf" THEN (IF a.n = b.n THEN a ELSE NaN)
    ELSE IF a.k = "inf" THEN a
    ELSE IF b.k = "inf" THEN b
    ELSE LET l == (a.d \div GCD(a.d, b.d)) * b.d
         IN  Fin(a.n * (l \div a.d) + b.n * (l \div b.d), l)

Sub(a, b) == Add(a, Neg(b))

Mul(a, b) ==
    IF IsNaN(a) \/ IsNaN(b) THEN NaN
    ELSE IF a.k = "inf" \/ b.k = "inf"
         THEN (IF Sgn(a) = 0 \/ Sgn(b) = 0 THEN NaN ELSE Inf(Sgn(a) * Sgn(b)))
    ELSE LET g == GCD(Abs(a.n), b.d)
             h == GCD(Abs(b.n), a.d)
         IN  Fin((a.n \div g) * (b.n \div h), (a.d \div h) * (b.d \div g))

Div(a, b) ==
    IF IsNaN(a) \/ IsNaN(b) THEN NaN
    ELSE IF a.k = "inf" THEN (IF b.k = "inf" THEN NaN
                              ELSE Inf(IF Sgn(b) < 0 THEN -a.n ELSE a.n))
    ELSE IF b.k = "inf" THEN Num(0)
    ELSE IF b.n = 0 THEN (IF a.n = 0 THEN NaN ELSE Inf(Sgn(a)))
    ELSE Fin(a.n * b.d, a.d * b.n)

\* a <= b as IEEE compares: false when either side is NaN
Le(a, b) ==
    IF IsNaN(a) \/ IsNaN(b) THEN FALSE
    ELSE IF a.k = "inf" THEN (a.n = -1 \/ (b.k = "inf" /\ b.n = 1))
    ELSE IF b.k = "inf" THEN b.n = 1
    ELSE a.n * b.d <= b.n * a.d

Ge(a, b) == Le(b, a)

\* conversion of a finite number to an integer: truncation toward zero
Trunc(a) == IF a.n >= 0 THEN a.n \div a.d ELSE -((-a.n) \div a.d)

\* largest integer <= a finite number
Floor(a) == a.n \div a.d

(***************************************************************************)
(* dtypes.  Float32Round is the value a float32 holds for a number: with a *)
(* 24-bit significand, integers of magnitude in (2^24, 2^25) are rounded   *)
(* to the nearest even integer, ties to the one whose significand is even. *)
(* Fractions of the model are kept exact.                                  *)
(***************************************************************************)
Float32Round(a) ==
    IF a.k # "fin" \/ a.d # 1 \/ Abs(a.n) <= 2^24 \/ a.n % 2 = 0 THEN a
    ELSE LET m == Abs(a.n)
             lo == m - 1
             r == IF (lo \div 2) % 2 = 0 THEN lo ELSE m + 1
         IN  Num(Sgn(a) * r)

\* the value of `a` after conversion to dtype dt (Tensor.to, .float(), .bool())
Cast(a, dt) ==
    CASE dt = "float64" -> a
      [] dt = "float32" -> Float32Round(a)
      [] dt = "bool" -> IF a = Num(0) THEN Num(0) ELSE Num(1)
      [] dt = "uint8" /\ IsFinite(a) -> Num(Trunc(a) % 256)

(***************************************************************************)
(* Tensors: [dtype, nd, data]; data is a sequence nested nd deep.          *)
(***************************************************************************)
Map1(Op(_), s) == [i \in 1..Len(s) |-> Op(s[i])]

Map2(Op(_), s) == [i \in 1..Len(s) |-> Map1(Op, s[i])]

Map3(Op(_), s) == [i \in 1..Len(s) |-> Map2(Op, s[i])]

Tensor(dt, nd, data) == [dtype |-> dt, nd |-> nd, data |-> data]

\* Tensor.to(dtype) / .float() / .bool(): the converted values
TensorTo(t, dt) ==
    LET c(a) == Cast(a, dt)
    IN  Let(t, LAMBDA u :
            Tensor(dt, u.nd,
                   CASE u.nd = 1 -> Map1(c, u.data)
                     [] u.nd = 2 -> Map2(c, u.data)
                     [] u.nd = 3 -> Map3(c, u.data)))

\* tensor.shape[-2:] of a tensor with at least two dimensions
SpatialShape(t) ==
    IF t.nd = 2 THEN <<Len(t.data), Len(t.data[1])>>
    ELSE <<Len(t.data[1]), Len(t.data[1][1])>>

(***************************************************************************)
(* _pad (lines 14-27).  F.pad with mode='constant' adds xpad columns on    *)
(* the right and ypad rows at the bottom of every plane of a [C, H, W]     *)
(* tensor; a negative amount removes that many columns or rows instead.    *)
(* The tensor is converted to float32 before and back to its dtype after.  *)
(***************************************************************************)
\* a variant of F.pad that treats a negative amount as 0 (no cell removed)
FPadClamped(t, xpad, ypad, value) ==
    Let(SpatialShape(t), LAMBDA hw :
        Tensor(t.dtype, t.nd,
               [c \in 1..Len(t.data) |->
                 [r \in 1..(hw[1] + (IF ypad < 0 THEN 0 ELSE ypad)) |->
                   [x \in 1..(hw[2] + (IF xpad < 0 THEN 0 ELSE xpad)) |->
                     IF r <= hw[1] /\ x <= hw[2] THEN t.data[c][r][x]
                     ELSE Cast(value, t.dtype)]]]))

\* F.pad(t, (0, xpad, 0, ypad), mode='constant', value=value)
FPad(t, xpad, ypad, value) ==
    Let(SpatialShape(t), LAMBDA hw :
        Tensor(t.dtype, t.nd,
               [c \in 1..Len(t.data) |->
                 [r \in 1..(hw[1] + ypad) |->
                   [x \in 1..(hw[2] + xpad) |->
                     IF r <= hw[1] /\ x <= hw[2] THEN t.data[c][r][x]
                     ELSE Cast(value, t.dtype)]]]))

\* the tensor _pad builds before its assertion (lines 15-24)
_padded(tensor, size, value) ==
    Let(TensorTo(tensor, "float32"), LAMBDA f :
        Let(FPad(f, size[2] - SpatialShape(f)[2], size[1] - SpatialShape(f)[1], value),
            LAMBDA padded : TensorTo(padded, tensor.dtype)))

\* assert padded.shape[1:] == tuple(size) (line 26)
_padAssert(tensor, size, value) ==
    SpatialShape(_padded(tensor, size, value)) = size

_pad(tensor, size, value) == _padded(tensor, size, value)

(***************************************************************************)
(* _rescale (lines 6-11): F.interpolate(mode='bilinear',                   *)
(* align_corners=False) of the float32 tensor to `size`, converted back.   *)
(* Along an axis of input length I and output length O, output index o     *)
(* (from 1) samples the source position max(0, (o - 1/2) * I/O - 1/2),     *)
(* between the input cells i0 and i1 with weights l0 and l1.               *)
(***************************************************************************)
AxisTap(I, O, o) ==
    Let(Fin((2 * o - 1) * I - O, 2 * O), LAMBDA raw :
        Let(IF raw.n < 0 THEN Num(0) ELSE raw, LAMBDA src :
            [i0 |-> Floor(src) + 1,
             i1 |-> Floor(src) + 1 + (IF Floor(src) < I - 1 THEN 1 ELSE 0),
             l0 |-> Sub(Num(1), Sub(src, Num(Floor(src)))),
             l1 |-> Sub(src, Num(Floor(src)))]))

\* l0 * a + l1 * b
Lerp(l0, a, l1, b) == Add(Mul(l0, a), Mul(l1, b))

\* one output cell: rows h.i0, h.i1 and columns w.i0, w.i1 of the plane
BilinearCell(plane, h, w) ==
    Let(Lerp(w.l0, plane[h.i0][w.i0], w.l1, plane[h.i0][w.i1]), LAMBDA top :
        Let(Lerp(w.l0, plane[h.i1][w.i0], w.l1, plane[h.i1][w.i1]), LAMBDA bot :
            Lerp(h.l0, top, h.l1, bot)))

Bilinear(plane, size) ==
    Let([r \in 1..size[1] |-> AxisTap(Len(plane), size[1], r)], LAMBDA hs :
        Let([x \in 1..size[2] |-> AxisTap(Len(plane[1]), size[2], x)], LAMBDA ws :
            [r \in 1..size[1] |->
              [x \in 1..size[2] |-> BilinearCell(plane, hs[r], ws[x])]]))

\* F.interpolate raises when an output length is not positive
InterpolateOk(size) == size[1] >= 1 /\ size[2] >= 1

_rescale(tensor, size) ==
    Let(TensorTo(tensor, "float32"), LAMBDA f :
        TensorTo(Tensor("float32", 3,
                        [c \in 1..Len(f.data) |-> Bilinear(f.data[c], size)]),
                 tensor.dtype))

\* tensor[None]: a [H, W] tensor as [1, H, W]
Unsqueeze(t) == Tensor(t.dtype, 3, <<t.data>>)

\* tensor[0]: the first plane of a [1, H, W] tensor
First(t) == Tensor(t.dtype, 2, t.data[1])

(***************************************************************************)
(* The heap and the Image objects.  An Image is a record of references     *)
(* into the heap, 0 standing for None.                                     *)
(***************************************************************************)
NoneT == [dtype |-> "none", nd |-> 0, data |-> <<>>]

IsNone(t) == t.dtype = "none"

\* the tensor a reference denotes
Deref(h, ref) == IF ref = 0 THEN NoneT ELSE h[ref]

\* a new object for tensor t (None is no object)
Alloc(h, t) ==
    IF IsNone(t) THEN [heap |-> h, ref |-> 0]
    ELSE [heap |-> Append(h, t), ref |-> Len(h) + 1]

\* the tensors an Image's attributes denote
Fields(h, v) ==
    [K |-> Deref(h, v.K), R |-> Deref(h, v.R), T |-> Deref(h, v.T),
     bitmap |-> Deref(h, v.bitmap), depth |-> Deref(h, v.depth),
     mask |-> Deref(h, v.mask)]

\* Image.shape: self.bitmap.shape[-2:]
shape(h, v) == SpatialShape(Deref(h, v.bitmap))

\* torch.ones(shape).bool()
Ones(hw) == Tensor("bool", 2, [r \in 1..hw[1] |-> [x \in 1..hw[2] |-> Num(1)]])

NoScene ==
    [K |-> NoneT, R |-> NoneT, T |-> NoneT, bitmap |-> NoneT, depth |-> NoneT,
     mask |-> NoneT]

\* what a call leaves behind: the operation, its receiver (an index of
\* views), the Image it returned (out), the exception it raised (err), its
\* arguments and its result
NoRet ==
    [op |-> "", self |-> 0, out |-> 0, err |-> "", size |-> <<0, 0>>,
     dtype |-> "", scene |-> NoScene, pts |-> <<>>, src |-> <<>>,
     flags |-> <<>>, vals |-> <<>>, res |-> <<>>]

(***************************************************************************)
(* Image.__init__ (lines 30-40): the attributes are bound to the arguments *)
(* as given (references, None included); only the mask is computed: an     *)
(* all-true mask of bitmap's extent when it is None, mask.bool() otherwise *)
(* (the same object when it is bool already).  No shape is compared.       *)
(***************************************************************************)
\* a variant of the constructor that refuses rasters of different extents
InitChecked(h, K, R, T, bitmap, depth, mask) ==
    IF \/ depth # 0 /\ SpatialShape(h[depth]) # SpatialShape(h[bitmap])
       \/ mask # 0 /\ SpatialShape(h[mask]) # SpatialShape(h[bitmap])
    THEN [err |-> "AssertionError", heap |-> h,
          view |-> [K |-> K, R |-> R, T |-> T, bitmap |-> bitmap,
                    depth |-> depth, mask |-> mask]]
    ELSE Let(IF mask = 0 THEN Alloc(h, Ones(SpatialShape(h[bitmap])))
             ELSE IF h[mask].dtype = "bool" THEN [heap |-> h, ref |-> mask]
             ELSE Alloc(h, TensorTo(h[mask], "bool")),
             LAMBDA aM :
               [err |-> "", heap |-> aM.heap,
                view |-> [K |-> K, R |-> R, T |-> T, bitmap |-> bitmap,
                          depth |-> depth, mask |-> aM.ref]])

__init__(h, K, R, T, bitmap, depth, mask) ==
    Let(IF mask = 0 THEN Alloc(h, Ones(SpatialShape(h[bitmap])))
        ELSE IF h[mask].dtype = "bool" THEN [heap |-> h, ref |-> mask]
        ELSE Alloc(h, TensorTo(h[mask], "bool")),
        LAMBDA aM :
          [err |-> "", heap |-> aM.heap,
           view |-> [K |-> K, R |-> R, T |-> T, bitmap |-> bitmap,
                     depth |-> depth, mask |-> aM.ref]])

\* the arguments of a call that are tensors become objects: the heap after
\* it, and each argument's reference (0 for None)
AllocAll(h, ts) ==
    [heap |-> h \o SelectSeq(ts, LAMBDA t : ~IsNone(t)),
     refs |-> [k \in 1..Len(ts) |->
                IF IsNone(ts[k]) THEN 0
                ELSE Len(h) + Len(SelectSeq(SubSeq(ts, 1, k), LAMBDA t : ~IsNone(t)))]]

\* Image(K, R, T, bitmap, depth, mask) on a caller's tensors
ConstructResult(h, scene) ==
    Let(AllocAll(h, <<scene.K, scene.R, scene.T, scene.bitmap, scene.depth,
                      scene.mask>>),
        LAMBDA a : __init__(a.heap, a.refs[1], a.refs[2], a.refs[3], a.refs[4],
                            a.refs[5], a.refs[6]))

Construct(S) ==
    /\ Len(views) = 0
    /\ \E scene \in S :
         \E r \in {ConstructResult(heap, scene)} :
             /\ heap' = r.heap
             /\ views' = (IF r.err = "" THEN Append(views, r.view) ELSE views)
             /\ ret' = [NoRet EXCEPT !.op = "__init__", !.err = r.err,
                                     !.out = (IF r.err = "" THEN 1 ELSE 0),
                                     !.scene = scene]
             /\ nops' = nops

(***************************************************************************)
(* Image.to (lines 64-73).  The loop keeps attr_transferred from one key   *)
(* to the next: when an attribute is None the assignment on line 70 is     *)
(* skipped and line 71 stores the previous key's converted tensor, or      *)
(* raises UnboundLocalError when there is none yet.  Tensor.to returns the *)
(* tensor itself when it already has the dtype, a new tensor otherwise.    *)
(***************************************************************************)
TRANSFERRED_ATTRS == <<"K", "R", "T", "depth", "mask">>

\* a variant of attr.to(dtype) that converts the tensor object in place
AttrToInPlace(h, ref, dt) ==
    [heap |-> [h EXCEPT ![ref] = TensorTo(h[ref], dt)], ref |-> ref]

\* attr.to(dtype) on the heap: the reference of the result
AttrTo(h, ref, dt) ==
    IF h[ref].dtype = dt THEN [heap |-> h, ref |-> ref]
    ELSE Alloc(h, TensorTo(h[ref], dt))

\* the loop of lines 67-71 from key number k on; carry is attr_transferred
\* (-1: not bound yet)
RECURSIVE ToLoop(_, _, _, _, _)
ToLoop(h, v, dt, k, carry) ==
    IF k > Len(TRANSFERRED_ATTRS) THEN [err |-> "", heap |-> h, view |-> v]
    ELSE LET key == TRANSFERRED_ATTRS[k]
             attr == v[key]
         IN  IF attr # 0
             THEN LET a == AttrTo(h, attr, dt)
                  IN  ToLoop(a.heap, [v EXCEPT ![key] = a.ref], dt, k + 1, a.ref)
             ELSE IF carry = -1
                  THEN [err |-> "UnboundLocalError", heap |-> h, view |-> v]
                  ELSE ToLoop(h, [v EXCEPT ![key] = carry], dt, k + 1, carry)

ToResult(h, v, dt) == ToLoop(h, v, dt, 1, -1)

To(i, dt) ==
    \E r \in {ToResult(heap, views[i], dt)} :
        /\ heap' = r.heap
        /\ views' = [views EXCEPT ![i] = r.view]
        /\ ret' = [NoRet EXCEPT !.op = "to", !.self = i, !.err = r.err,
                                !.out = (IF r.err = "" THEN i ELSE 0),
                                !.dtype = dt]
        /\ nops' = nops + 1

(***************************************************************************)
(* Matrices: a [m, n] tensor's data is a sequence of m rows of n numbers.  *)
(***************************************************************************)
RECURSIVE Dot(_, _, _, _)
\* sum over k <= n of A[i][k] * B[k][j]
Dot(A, B, ij, n) ==
    IF n = 0 THEN Num(0)
    ELSE IF n = 1 THEN Mul(A[ij[1]][1], B[1][ij[2]])
    ELSE Add(Dot(A, B, ij, n - 1), Mul(A[ij[1]][n], B[n][ij[2]]))

\* A @ B
MatMul(A, B) ==
    [i \in 1..Len(A) |-> [j \in 1..Len(B[1]) |-> Dot(A, B, <<i, j>>, Len(B))]]

\* a variant of A.T that leaves A as it is
Untransposed(A) == A

\* A.T
Transpose(A) == [j \in 1..Len(A[1]) |-> [i \in 1..Len(A) |-> A[i][j]]]

(***************************************************************************)
(* Image.scale (lines 76-97).  The factors are Python floats; for extents  *)
(* and targets up to 8 the float products below are exact, so int() of     *)
(* them is the truncation of the exact quotient.                           *)
(***************************************************************************)
Max(a, b) == IF Le(b, a) THEN a ELSE b

\* lines 77-80
ScaleFactor(hw, size) ==
    LET x_factor == Fin(hw[1], size[1])
        y_factor == Fin(hw[2], size[2])
    IN  Div(Num(1), Max(x_factor, y_factor))

\* Python's round of a non-negative number: to the nearest integer, a half
\* to the even one
Round(a) ==
    LET fl == Floor(a)
        twice == 2 * (a.n - fl * a.d)
    IN  IF twice < a.d THEN fl
        ELSE IF twice > a.d THEN fl + 1
        ELSE IF fl % 2 = 0 THEN fl ELSE fl + 1

\* a variant of new_size that rounds where the code truncates
NewSizeRounded(hw, size) ==
    LET x_factor == Fin(hw[1], size[1])
        y_factor == Fin(hw[2], size[2])
        f == ScaleFactor(hw, size)
    IN  IF ~Le(x_factor, y_factor)
        THEN <<size[1], Round(Mul(f, Num(hw[2])))>>
        ELSE <<Round(Mul(f, Num(hw[1]))), size[2]>>

\* lines 77-84: new_size
NewSize(hw, size) ==
    LET x_factor == Fin(hw[1], size[1])
        y_factor == Fin(hw[2], size[2])
        f == ScaleFactor(hw, size)
    IN  IF ~Le(x_factor, y_factor)
        THEN <<size[1], Trunc(Mul(f, Num(hw[2])))>>
        ELSE <<Trunc(Mul(f, Num(hw[1]))), size[2]>>

\* lines 86-91: K_scaler @ self.K
ScaledK(K, f) ==
    LET K_scaler == TensorTo(Tensor(K.dtype, 2,
                                    <<<<f, Num(0), f>>,
                                      <<Num(0), f, f>>,
                                      <<Num(0), Num(0), Num(1)>>>>), K.dtype)
    IN  TensorTo(Tensor(K.dtype, 2, MatMul(K_scaler.data, K.data)), K.dtype)

\* a variant that resamples the mask to the requested size, not to new_size
RescaleSizesMaskOff(hw, size) ==
    [bitmap |-> NewSize(hw, size), depth |-> NewSize(hw, size), mask |-> size]

\* the size the three rasters are resampled to (lines 93-95)
RescaleSizes(hw, size) ==
    [bitmap |-> NewSize(hw, size), depth |-> NewSize(hw, size),
     mask |-> NewSize(hw, size)]

\* Image(K, self.R, self.T, bitmap, depth, mask) on the new tensors (line 97)
ScaleBuild(h, v, K, bitmap, depth, mask) ==
    Let(AllocAll(h, <<K, bitmap, depth, mask>>),
        LAMBDA a : __init__(a.heap, a.refs[1], v.R, v.T, a.refs[2], a.refs[3],
                            a.refs[4]))

ScaleResult(h, v, size) ==
    Let(RescaleSizes(shape(h, v), size), LAMBDA sz :
        IF v.K = 0 THEN [err |-> "AttributeError", heap |-> h, view |-> v]
        ELSE IF ~InterpolateOk(sz.bitmap)
        THEN [err |-> "RuntimeError", heap |-> h, view |-> v]
        ELSE IF v.depth = 0 THEN [err |-> "AttributeError", heap |-> h, view |-> v]
        ELSE IF h[v.depth].nd # 3
        THEN [err |-> "NotImplementedError", heap |-> h, view |-> v]
        ELSE ScaleBuild(h, v, ScaledK(h[v.K], ScaleFactor(shape(h, v), size)),
                        _rescale(h[v.bitmap], sz.bitmap),
                        _rescale(h[v.depth], sz.depth),
                        First(_rescale(Unsqueeze(h[v.mask]), sz.mask))))

Scale(i, size) ==
    \E r \in {ScaleResult(heap, views[i], size)} :
        /\ heap' = (IF r.err = "" THEN r.heap ELSE heap)
        /\ views' = (IF r.err = "" THEN Append(views, r.view) ELSE views)
        /\ ret' = [NoRet EXCEPT !.op = "scale", !.self = i, !.err = r.err,
                                !.out = (IF r.err = "" THEN Len(views) + 1 ELSE 0),
                                !.size = size]
        /\ nops' = nops + 1

(***************************************************************************)
(* Image.pad (lines 100-105).                                              *)
(***************************************************************************)
\* Image(self.K, self.R, self.T, bitmap, depth, mask) on the new tensors (line 105)
PadBuild(h, v, bitmap, depth, mask) ==
    Let(AllocAll(h, <<bitmap, depth, mask>>),
        LAMBDA a : __init__(a.heap, v.K, v.R, v.T, a.refs[1], a.refs[2], a.refs[3]))

PadResult(h, v, size) ==
    IF v.depth = 0 THEN [err |-> "AttributeError", heap |-> h, view |-> v]
    ELSE IF h[v.depth].nd # 3 THEN [err |-> "IndexError", heap |-> h, view |-> v]
    ELSE IF \/ ~_padAssert(h[v.bitmap], size, Num(0))
            \/ ~_padAssert(h[v.depth], size, NaN)
            \/ ~_padAssert(Unsqueeze(h[v.mask]), size, Num(0))
    THEN [err |-> "AssertionError", heap |-> h, view |-> v]
    ELSE PadBuild(h, v, _pad(h[v.bitmap], size, Num(0)),
                  _pad(h[v.depth], size, NaN),
                  First(_pad(Unsqueeze(h[v.mask]), size, Num(0))))

Pad(i, size) ==
    \E r \in {PadResult(heap, views[i], size)} :
        /\ heap' = (IF r.err = "" THEN r.heap ELSE heap)
        /\ views' = (IF r.err = "" THEN Append(views, r.view) ELSE views)
        /\ ret' = [NoRet EXCEPT !.op = "pad", !.self = i, !.err = r.err,
                                !.out = (IF r.err = "" THEN Len(views) + 1 ELSE 0),
                                !.size = size]
        /\ nops' = nops + 1

(***************************************************************************)
(* Image.in_range_mask (lines 108-112).  xy is a [2, N] tensor: xy[1] the  *)
(* x coordinates, xy[2] the y coordinates.                                 *)
(***************************************************************************)
\* a variant that compares x with the height and y with the width
InRangeSwapped(h, v, xy) ==
    LET hh == shape(h, v)[1]
        w == shape(h, v)[2]
        x == xy[1]
        y == xy[2]
    IN  [j \in 1..Len(x) |->
          /\ Ge(x[j], Num(0)) /\ Ge(y[j], Num(0))
          /\ Le(x[j], Num(hh)) /\ Le(y[j], Num(w))]

in_range_mask(h, v, xy) ==
    LET hh == shape(h, v)[1]
        w == shape(h, v)[2]
        x == xy[1]
        y == xy[2]
    IN  [j \in 1..Len(x) |->
          /\ Ge(x[j], Num(0)) /\ Ge(y[j], Num(0))
          /\ Le(x[j], Num(w)) /\ Le(y[j], Num(hh))]

InRangeMask(i, xy) ==
    /\ ret' = [NoRet EXCEPT !.op = "in_range_mask", !.self = i, !.pts = xy,
                            !.flags = in_range_mask(heap, views[i], xy)]
    /\ nops' = nops + 1
    /\ UNCHANGED <<heap, views>>

(***************************************************************************)
(* Image.fetch_depth (lines 115-129).                                      *)
(***************************************************************************)
\* line 118: in_range & finite
valid_depth(h, v, xy) ==
    LET in_range == in_range_mask(h, v, xy)
    IN  [j \in 1..Len(xy[1]) |->
          in_range[j] /\ IsFinite(xy[1][j]) /\ IsFinite(xy[2][j])]

\* line 128: every selected (y, x) must index self.depth[0]
IndexOk(d, v_d, xy) ==
    \A j \in 1..Len(xy[1]) :
        v_d[j] => /\ Trunc(xy[2][j]) < Len(d.data[1])
                  /\ Trunc(xy[1][j]) < Len(d.data[1][1])

FetchDepthResult(h, v, xy) ==
    LET v_d == valid_depth(h, v, xy)
    IN  IF v.depth = 0 THEN [err |-> "AttributeError", vals |-> <<>>]
        ELSE IF h[v.depth].nd # 3 \/ ~IndexOk(h[v.depth], v_d, xy)
        THEN [err |-> "IndexError", vals |-> <<>>]
        ELSE [err |-> "",
              vals |-> [j \in 1..Len(xy[1]) |->
                         IF v_d[j]
                         THEN h[v.depth].data[1][Trunc(xy[2][j]) + 1][Trunc(xy[1][j]) + 1]
                         ELSE Cast(NaN, h[v.depth].dtype)]]

FetchDepth(i, xy) ==
    \E r \in {FetchDepthResult(heap, views[i], xy)} :
        /\ ret' = [NoRet EXCEPT !.op = "fetch_depth", !.self = i, !.pts = xy,
                                !.err = r.err, !.vals = r.vals]
        /\ nops' = nops + 1
        /\ UNCHANGED <<heap, views>>

(***************************************************************************)
(* Image.K_inv (lines 42-44): K.inverse(), which raises on a singular K.   *)
(***************************************************************************)
Cyc(k) == (k % 3) + 1

Cofactor(A, r, c) ==
    Sub(Mul(A[Cyc(r)][Cyc(c)], A[Cyc(Cyc(r))][Cyc(Cyc(c))]),
        Mul(A[Cyc(r)][Cyc(Cyc(c))], A[Cyc(Cyc(r))][Cyc(c)]))

Det(A) ==
    Add(Add(Mul(A[1][1], Cofactor(A, 1, 1)), Mul(A[1][2], Cofactor(A, 1, 2))),
        Mul(A[1][3], Cofactor(A, 1, 3)))

Inverse(A) ==
    [i \in 1..3 |-> [j \in 1..3 |-> Div(Cofactor(A, j, i), Det(A))]]

(***************************************************************************)
(* Image.unproject (lines 131-142) and Image.project (lines 145-149).      *)
(***************************************************************************)
UnprojectResult(h, v, xy) ==
    LET d == FetchDepthResult(h, v, xy)
    IN  IF d.err # "" THEN [err |-> d.err, res |-> <<>>]
        ELSE IF v.K = 0 THEN [err |-> "AttributeError", res |-> <<>>]
        ELSE IF Det(h[v.K].data) = Num(0) THEN [err |-> "RuntimeError", res |-> <<>>]
        ELSE IF v.R = 0 THEN [err |-> "AttributeError", res |-> <<>>]
        ELSE IF v.T = 0 THEN [err |-> "TypeError", res |-> <<>>]
        ELSE
          LET dt == h[v.depth].dtype
              c(a) == Cast(a, dt)
              N == Len(xy[1])
              xyw == <<Map1(c, xy[1]), Map1(c, xy[2]), [j \in 1..N |-> Num(1)]>>
              ray == MatMul(Inverse(h[v.K].data), xyw)
              xyz == [r \in 1..3 |-> [j \in 1..N |-> Mul(ray[r][j], d.vals[j])]]
              rel == [r \in 1..3 |-> [j \in 1..N |-> Sub(xyz[r][j], h[v.T].data[r])]]
              xyz_w == MatMul(Transpose(h[v.R].data), rel)
          IN  [err |-> "", res |-> Map2(c, xyz_w)]

Unproject(i, xy) ==
    \E r \in {UnprojectResult(heap, views[i], xy)} :
        /\ ret' = [NoRet EXCEPT !.op = "unproject", !.self = i, !.pts = xy,
                                !.err = r.err, !.res = r.res]
        /\ nops' = nops + 1
        /\ UNCHANGED <<heap, views>>

ProjectResult(h, v, xyw) ==
    IF v.R = 0 \/ v.T = 0 \/ v.K = 0 THEN [err |-> "TypeError", res |-> <<>>]
    ELSE
      LET N == Len(xyw[1])
          rot == MatMul(h[v.R].data, xyw)
          extrinsic == [r \in 1..3 |-> [j \in 1..N |-> Add(rot[r][j], h[v.T].data[r])]]
          intrinsic == MatMul(h[v.K].data, extrinsic)
          c(a) == Cast(a, h[v.K].dtype)
      IN  [err |-> "",
           res |-> [r \in 1..2 |->
                     [j \in 1..N |-> c(Div(intrinsic[r][j], intrinsic[3][j]))]]]

\* src: the pixels xyw was unprojected from, <<>> when it is a caller's own
Project(i, xyw, src) ==
    \E r \in {ProjectResult(heap, views[i], xyw)} :
        /\ ret' = [NoRet EXCEPT !.op = "project", !.self = i, !.pts = xyw,
                                !.src = src, !.err = r.err, !.res = r.res]
        /\ nops' = nops + 1
        /\ UNCHANGED <<heap, views>>

(***************************************************************************)
(* The arguments the calls are made with.                                  *)
(***************************************************************************)
Dtypes == {"float32", "float64"}

Extents == (1..MaxDim) \X (1..MaxDim)

\* a uint8 colour raster [1, h, w] without a zero cell
BitmapT(hw) ==
    Tensor("uint8", 3,
           <<[r \in 1..hw[1] |-> [x \in 1..hw[2] |-> Num(((37 * r + 11 * x) % 251) + 1)]]>>)

\* a depth raster [1, h, w]: p = 1 is finite and non-zero everywhere; p = 2
\* holds 2^24 + 1 (not a float32), NaN and 0
DepthT(hw, p, dt) ==
    TensorTo(Tensor("float64", 3,
        <<[r \in 1..hw[1] |-> [x \in 1..hw[2] |->
            IF p = 1 THEN Fin(2 * r + x, 2)
            ELSE IF r = 1 /\ x = 1 THEN Num(2^24 + 1)
            ELSE IF (r + x) % 2 = 1 THEN NaN
            ELSE Num(0)]]>>), dt)

\* a mask [h, w]: bool, or float32 to be converted by mask.bool()
MaskT(hw, dt) ==
    Tensor(dt, 2,
        [r \in 1..hw[1] |-> [x \in 1..hw[2] |->
            IF (r + x) % 2 = 1 THEN Num(0)
            ELSE IF dt = "bool" THEN Num(1) ELSE Fin(1, 2)]])

Mat(dt, rows) == TensorTo(Tensor("float64", 2, Map2(Num, rows)), dt)

Vec(dt, xs) == TensorTo(Tensor("float64", 1, Map1(Num, xs)), dt)

\* cameras: an invertible K with skew, a rotation about z, a translation
MainK(dt) == Mat(dt, <<<<2, 1, 1>>, <<0, 3, 2>>, <<0, 0, 1>>>>)

MainR(dt) == Mat(dt, <<<<0, -1, 0>>, <<1, 0, 0>>, <<0, 0, 1>>>>)

MainT(dt) == Vec(dt, <<1, -2, 3>>)

Identity(dt) == Mat(dt, <<<<1, 0, 0>>, <<0, 1, 0>>, <<0, 0, 1>>>>)

\* a singular K and an R that is not orthonormal
SingularK(dt) == Mat(dt, <<<<1, 0, 0>>, <<0, 0, 0>>, <<0, 0, 1>>>>)

StretchR(dt) == Mat(dt, <<<<2, 0, 0>>, <<0, 1, 0>>, <<0, 0, 1>>>>)

Scene(K, R, T, bitmap, depth, mask) ==
    [K |-> K, R |-> R, T |-> T, bitmap |-> bitmap, depth |-> depth, mask |-> mask]

\* rasters of one extent under the main camera
RasterScenes(E) ==
    { Scene(MainK(dt), MainR(dt), MainT(dt), BitmapT(hw), DepthT(hw, pm[1], dt),
            IF pm[2] = "none" THEN NoneT ELSE MaskT(hw, pm[2])) :
        hw \in E, dt \in Dtypes,
        pm \in {<<1, "none">>, <<2, "none">>, <<1, "bool">>, <<2, "float32">>} }

\* other cameras
CameraScenes(E) ==
    { Scene(cam[1], cam[2], cam[3], BitmapT(hw), DepthT(hw, 1, "float32"), NoneT) :
        hw \in E,
        cam \in {<<Identity("float32"), Identity("float32"), Vec("float32", <<0, 0, 0>>)>>,
                 <<SingularK("float32"), MainR("float32"), MainT("float32")>>,
                 <<MainK("float32"), StretchR("float32"), MainT("float32")>>} }

\* a depth or a mask whose extent is not bitmap's
MismatchScenes(E) ==
    { Scene(MainK("float32"), MainR("float32"), MainT("float32"), BitmapT(hw),
            DepthT(<<hw[1] + d[1], hw[2] + d[2]>>, 1, "float32"),
            IF d[3] = 0 THEN NoneT
            ELSE MaskT(<<hw[1] + 2 - d[3], hw[2] + d[3] - 1>>, "bool")) :
        hw \in E,
        d \in {<<1, 0, 0>>, <<0, 1, 0>>, <<0, 0, 1>>, <<0, 0, 2>>} }

\* an attribute that is None
NoneScenes(E) ==
    { Scene(IF n = "K" THEN NoneT ELSE MainK("float32"),
            IF n = "R" THEN NoneT ELSE MainR("float32"),
            MainT("float32"), BitmapT(hw),
            IF n = "depth" THEN NoneT ELSE DepthT(hw, 1, "float32"), NoneT) :
        hw \in E, n \in {"K", "R", "depth"} }

CallScenes ==
    RasterScenes(Extents) \cup CameraScenes(Extents) \cup MismatchScenes(Extents)
    \cup NoneScenes({<<1, MaxDim>>})

SeqScenes ==
    { s \in RasterScenes({<<1, MaxDim>>, <<MaxDim, MaxDim>>}) : IsNone(s.mask) }
    \cup MismatchScenes({<<MaxDim, 1>>}) \cup NoneScenes({<<1, MaxDim>>})

\* target sizes
CallSizes == (1..(MaxDim + 1)) \X (1..(MaxDim + 1))

SeqSizes == {<<1, 1>>, <<MaxDim, MaxDim>>, <<1, MaxDim + 1>>}

\* pixel coordinates: halves from -1/2 to MaxDim + 1/2, the infinities, NaN
CoordVals ==
    {Fin(k, 2) : k \in (-1)..(2 * MaxDim + 1)} \cup {Inf(1), Inf(-1), NaN}

\* [2, N] batches of pixels, N = 1 and N = 2
CallBatches ==
    {<<<<x>>, <<y>>>> : x \in CoordVals, y \in CoordVals}
    \cup {<<<<Num(0), x>>, <<Num(0), y>>>> :
            x \in {Fin(1, 2), Num(MaxDim), Inf(1)}, y \in {Num(0), Fin(-1, 2)}}

SeqBatches ==
    {<<<<Num(0), Fin(1, 2)>>, <<Fin(1, 2), Inf(1)>>>>, <<<<Num(MaxDim)>>, <<Num(0)>>>>}

\* [3, N] batches of world points
WorldPoints ==
    {<<<<Num(1)>>, <<Num(2)>>, <<Num(3)>>>>,
     <<<<Num(0), Num(2)>>, <<Num(0), Num(-2)>>, <<Num(-3), Num(0)>>>>}

\* what project is called with: a caller's points, or what the last
\* unproject on the same Image returned
ProjectInputs(i, W) ==
    {[xyw |-> w, src |-> <<>>] : w \in W}
    \cup (IF ret.op = "unproject" /\ ret.self = i /\ ret.err = ""
          THEN {[xyw |-> ret.res, src |-> ret.pts]} ELSE {})

(***************************************************************************)
(* Specifications.  Spec follows one constructed Image through up to       *)
(* MaxOps calls on it and on the Images derived from it.  SpecCall makes   *)
(* one call on a constructed Image, drawn from larger sets of arguments    *)
(* (and projects what an unproject returned).                              *)
(***************************************************************************)
Init ==
    /\ heap = <<>>
    /\ views = <<>>
    /\ ret = NoRet
    /\ nops = 0

\* the Images a call can be made on while fewer than n calls have been made
Receivers(n) == IF nops < n THEN 1..Len(views) ELSE {}

Next ==
    \/ Construct(SeqScenes)
    \/ \E i \in Receivers(MaxOps), size \in SeqSizes : Scale(i, size)
    \/ \E i \in Receivers(MaxOps), size \in SeqSizes : Pad(i, size)
    \/ \E i \in Receivers(MaxOps), dt \in Dtypes : To(i, dt)
    \/ \E i \in Receivers(MaxOps), xy \in SeqBatches : InRangeMask(i, xy)
    \/ \E i \in Receivers(MaxOps), xy \in SeqBatches : FetchDepth(i, xy)
    \/ \E i \in Receivers(MaxOps), xy \in SeqBatches : Unproject(i, xy)
    \/ \E i \in Receivers(MaxOps) :
         \E p \in ProjectInputs(i, WorldPoints) : Project(i, p.xyw, p.src)

Spec == Init /\ [][Next]_vars

NextCall ==
    \/ Construct(CallScenes)
    \/ \E i \in Receivers(1), size \in CallSizes : Scale(i, size)
    \/ \E i \in Receivers(1), size \in CallSizes : Pad(i, size)
    \/ \E i \in Receivers(1), dt \in Dtypes : To(i, dt)
    \/ \E i \in Receivers(1), xy \in CallBatches : InRangeMask(i, xy)
    \/ \E i \in Receivers(1), xy \in CallBatches : FetchDepth(i, xy)
    \/ \E i \in Receivers(1), xy \in CallBatches : Unproject(i, xy)
    \/ \E i \in Receivers(2) :
         \E p \in ProjectInputs(i, IF nops = 0 THEN WorldPoints ELSE {}) :
             Project(i, p.xyw, p.src)

SpecCall == Init /\ [][NextCall]_vars

(***************************************************************************)
(* Properties.  Self is the Image the last call was made on, Out the Image *)
(* it returned; both are read in the state the call left.                  *)
(***************************************************************************)
SelfF == Fields(heap, views[ret.self])

OutF == Fields(heap, views[ret.out])

\* bitmap [C, H, W], depth [1, H', W'] and mask [H'', W''] are all present
HasRasters(f) ==
    /\ ~IsNone(f.bitmap) /\ f.bitmap.nd = 3
    /\ ~IsNone(f.depth) /\ f.depth.nd = 3
    /\ ~IsNone(f.mask) /\ f.mask.nd = 2

\* the three rasters are present and share one spatial extent
Agree(f) ==
    /\ HasRasters(f)
    /\ SpatialShape(f.depth) = SpatialShape(f.bitmap)
    /\ SpatialShape(f.mask) = SpatialShape(f.bitmap)

\* the three rasters all have extent hw
ExtentIs(f, hw) ==
    /\ HasRasters(f)
    /\ SpatialShape(f.bitmap) = hw
    /\ SpatialShape(f.depth) = hw
    /\ SpatialShape(f.mask) = hw

\* the rasters a caller hands to the constructor share one spatial extent
SceneAgrees(s) ==
    /\ IsNone(s.depth) \/ SpatialShape(s.depth) = SpatialShape(s.bitmap)
    /\ IsNone(s.mask) \/ SpatialShape(s.mask) = SpatialShape(s.bitmap)

\* C1 as the specification states it: construction succeeds exactly when
\* the supplied rasters agree, and fails when depth's or mask's extent
\* differs from bitmap's.
C1_ConstructionFailsOnMismatch ==
    ret.op = "__init__" =>
        ((ret.err = "" /\ ret.out # 0) <=> SceneAgrees(ret.scene))

\* C1, amended: construction compares no extents and always succeeds; the
\* new Image holds K, R, T, bitmap and depth exactly as given, whatever
\* their extents, and a bool mask: all true over bitmap's extent when no
\* mask was supplied, the supplied mask's non-zero cells otherwise.
C1_ConstructionAcceptsAnyExtents ==
    ret.op = "__init__" =>
        /\ ret.err = "" /\ ret.out = 1 /\ Len(views) = 1
        /\ OutF.K = ret.scene.K /\ OutF.R = ret.scene.R /\ OutF.T = ret.scene.T
        /\ OutF.bitmap = ret.scene.bitmap /\ OutF.depth = ret.scene.depth
        /\ OutF.mask.dtype = "bool" /\ OutF.mask.nd = 2
        /\ IF IsNone(ret.scene.mask)
           THEN /\ SpatialShape(OutF.mask) = SpatialShape(ret.scene.bitmap)
                /\ \A r \in 1..Len(OutF.mask.data) :
                     \A x \in 1..Len(OutF.mask.data[r]) :
                         OutF.mask.data[r][x] = Num(1)
           ELSE /\ SpatialShape(OutF.mask) = SpatialShape(ret.scene.mask)
                /\ \A r \in 1..Len(OutF.mask.data) :
                     \A x \in 1..Len(OutF.mask.data[r]) :
                         (OutF.mask.data[r][x] = Num(1))
                             <=> (ret.scene.mask.data[r][x] # Num(0))

\* an Image constructed from a depth and a mask whose extents both differ
\* from bitmap's or from each other
C1_MismatchConstructed ==
    /\ ret.op = "__init__" /\ ret.err = "" /\ ret.out = 1
    /\ ~SceneAgrees(ret.scene)
    /\ SpatialShape(OutF.depth) # SpatialShape(OutF.bitmap)

\* a target smaller than extent hw in at least one dimension
Smaller(hw, size) == size[1] < hw[1] \/ size[2] < hw[2]

\* the cells of plane q inside plane p's extent are p's, the others are fill
CropOrPad(p, q, fill) ==
    \A r \in 1..Len(q) : \A x \in 1..Len(q[r]) :
        q[r][x] = (IF r <= Len(p) /\ x <= Len(p[1]) THEN p[r][x] ELSE fill)

\* C2 as the specification states it: pad to a target smaller than the
\* current extent in some dimension fails with an assertion and returns no
\* view.
C2_PadSmallerFails ==
    (ret.op = "pad" /\ Smaller(shape(heap, views[ret.self]), ret.size)) =>
        (ret.err = "AssertionError" /\ ret.out = 0)

\* C2, amended: on an Image that has a depth, pad to a target (Ht, Wt) of
\* positive sides that is smaller than the extent in some dimension raises
\* nothing: it returns a new Image whose bitmap, depth and mask have extent
\* exactly (Ht, Wt), the removed rows and columns cut off at the bottom and
\* the right (bitmap and mask keep their top-left cells, a dimension that
\* grows is filled with 0).
C2_PadSmallerCrops ==
    (/\ ret.op = "pad"
     /\ Smaller(shape(heap, views[ret.self]), ret.size)
     /\ HasRasters(SelfF)) =>
        /\ ret.err = "" /\ ret.out = Len(views) /\ ret.out # ret.self
        /\ ExtentIs(OutF, ret.size)
        /\ CropOrPad(SelfF.bitmap.data[1], OutF.bitmap.data[1], Num(0))
        /\ CropOrPad(SelfF.mask.data, OutF.mask.data, Num(0))

\* a pad that returned a view narrower or lower than its receiver
C2_PadCropped ==
    /\ ret.op = "pad" /\ ret.err = "" /\ ret.out # 0
    /\ Agree(SelfF)
    /\ Smaller(shape(heap, views[ret.self]), ret.size)
    /\ ExtentIs(OutF, ret.size)

\* C3 as the specification states it: pad to a target at least as large as
\* the extent returns a view of exactly the target extent whose cells
\* inside the old extent equal the old cells and whose added cells are 0 in
\* bitmap, NaN in depth and false in mask.
C3_PadKeepsContent ==
    (/\ ret.op = "pad"
     /\ Agree(SelfF)
     /\ ~Smaller(shape(heap, views[ret.self]), ret.size)) =>
        /\ ret.err = "" /\ ret.out # 0
        /\ ExtentIs(OutF, ret.size)
        /\ CropOrPad(SelfF.bitmap.data[1], OutF.bitmap.data[1], Num(0))
        /\ CropOrPad(SelfF.depth.data[1], OutF.depth.data[1], NaN)
        /\ CropOrPad(SelfF.mask.data, OutF.mask.data, Num(0))

\* a pad to a target no smaller than the extent that returned a depth whose
\* first cell is not the receiver's
C3_PadChangedDepth ==
    /\ ret.op = "pad" /\ ret.err = "" /\ ret.out # 0
    /\ Agree(SelfF)
    /\ ~Smaller(shape(heap, views[ret.self]), ret.size)
    /\ OutF.depth.dtype = "float64"
    /\ OutF.depth.data[1][1][1] # SelfF.depth.data[1][1][1]

\* the pixel (x, y) is finite and 0 <= x <= W, 0 <= y <= H for extent hw
Inside(x, y, hw) ==
    /\ x.k = "fin" /\ y.k = "fin"
    /\ 0 <= x.n /\ x.n <= hw[2] * x.d
    /\ 0 <= y.n /\ y.n <= hw[1] * y.d

\* the size the specification gives for scale: the scaled side rounded
RoundedSize(hw, size) ==
    IF hw[1] * size[2] > hw[2] * size[1]
    THEN <<size[1], Round(Fin(hw[2] * size[1], hw[1]))>>
    ELSE <<Round(Fin(hw[1] * size[2], hw[2])), size[2]>>

\* the scaled side truncated instead
TruncatedSize(hw, size) ==
    IF hw[1] * size[2] > hw[2] * size[1]
    THEN <<size[1], (hw[2] * size[1]) \div hw[1]>>
    ELSE <<(hw[1] * size[2]) \div hw[2], size[2]>>

\* C4 as the specification states it: scale returns a view of size
\* (Ht, round(f*W)) when H/Ht > W/Wt and (round(f*H), Wt) otherwise, in
\* which exactly one side equals its target and the other is at most its
\* target.
C4_ScaleRounds ==
    (ret.op = "scale" /\ Agree(SelfF) /\ ~IsNone(SelfF.K)) =>
        /\ ret.err = "" /\ ret.out # 0
        /\ ExtentIs(OutF, RoundedSize(shape(heap, views[ret.self]), ret.size))
        /\ (SpatialShape(OutF.bitmap)[1] = ret.size[1])
               # (SpatialShape(OutF.bitmap)[2] = ret.size[2])
        /\ SpatialShape(OutF.bitmap)[1] <= ret.size[1]
        /\ SpatialShape(OutF.bitmap)[2] <= ret.size[2]

\* C4, amended: the scaled side is truncated, not rounded: the size is
\* (Ht, int(f*W)) when H/Ht > W/Wt and (int(f*H), Wt) otherwise.  When the
\* truncated side is 0 scale raises and returns no view; otherwise the
\* bitmap, depth and mask of the returned view all have that size, the
\* pinned side equals its target and the other side is at most its target
\* (both sides equal their targets when the aspect ratios agree).
C4_ScaleTruncates ==
    (ret.op = "scale" /\ Agree(SelfF) /\ ~IsNone(SelfF.K)) =>
        LET new == TruncatedSize(shape(heap, views[ret.self]), ret.size)
        IN  IF new[1] = 0 \/ new[2] = 0
            THEN ret.err = "RuntimeError" /\ ret.out = 0
            ELSE /\ ret.err = "" /\ ret.out = Len(views) /\ ret.out # ret.self
                 /\ ExtentIs(OutF, new)
                 /\ new[1] = ret.size[1] \/ new[2] = ret.size[2]
                 /\ new[1] <= ret.size[1] /\ new[2] <= ret.size[2]

\* a scale whose result has the truncated size where rounding gives another
C4_ScaleTruncated ==
    /\ ret.op = "scale" /\ ret.err = "" /\ ret.out # 0
    /\ Agree(SelfF)
    /\ ExtentIs(OutF, TruncatedSize(shape(heap, views[ret.self]), ret.size))
    /\ TruncatedSize(shape(heap, views[ret.self]), ret.size)
          # RoundedSize(shape(heap, views[ret.self]), ret.size)

\* C5 as the specification states it: fetch_depth never raises; it returns
\* one entry per pixel, the stored depth at row trunc(y), column trunc(x)
\* for a finite pixel with 0 <= x <= W and 0 <= y <= H, NaN for any other.
C5_FetchDepthNeverRaises ==
    (ret.op = "fetch_depth" /\ Agree(SelfF)) =>
        /\ ret.err = ""
        /\ Len(ret.vals) = Len(ret.pts[1])
        /\ \A j \in 1..Len(ret.pts[1]) :
             ret.vals[j] =
               (IF Inside(ret.pts[1][j], ret.pts[2][j], shape(heap, views[ret.self]))
                THEN SelfF.depth.data[1][Trunc(ret.pts[2][j]) + 1][Trunc(ret.pts[1][j]) + 1]
                ELSE NaN)

\* fetch_depth raised on the single in-range pixel (W, 0)
C5_BoundaryRaised ==
    /\ ret.op = "fetch_depth" /\ ret.err = "IndexError"
    /\ Agree(SelfF)
    /\ ret.pts = <<<<Num(shape(heap, views[ret.self])[2])>>, <<Num(0)>>>>

\* C6: in_range_mask returns one flag per pixel, true exactly when
\* 0 <= x <= W and 0 <= y <= H (x against the width, y against the height,
\* both bounds inclusive); the flags are a function of the extent and the
\* pixels alone, whatever the view's mask, depth and bitmap hold.
C6_InRangeInclusive ==
    ret.op = "in_range_mask" =>
        /\ Len(ret.flags) = Len(ret.pts[1])
        /\ \A j \in 1..Len(ret.pts[1]) :
             ret.flags[j] <=>
               Inside(ret.pts[1][j], ret.pts[2][j], shape(heap, views[ret.self]))

\* on a view higher than wide, the corner (W, H) was found in range
C6_CornerInRange ==
    /\ ret.op = "in_range_mask"
    /\ shape(heap, views[ret.self]) = <<MaxDim, 1>>
    /\ ret.pts = <<<<Num(1)>>, <<Num(MaxDim)>>>>
    /\ ret.flags = <<TRUE>>

\* R @ R.T is the identity, row by row
Orthonormal(R) ==
    \A i \in 1..3 : \A j \in 1..3 :
        Add(Add(Mul(R[i][1], R[j][1]), Mul(R[i][2], R[j][2])), Mul(R[i][3], R[j][3]))
            = (IF i = j THEN Num(1) ELSE Num(0))

\* the depth stored under the pixel (x, y) is finite and not 0
DepthUsable(d, x, y) ==
    LET z == d.data[1][Trunc(y) + 1][Trunc(x) + 1]
    IN  z.k = "fin" /\ z.n # 0

\* C7: on a view with invertible K and orthonormal R, project applied to
\* what unproject returned for a batch of pixels gives back every pixel
\* of the batch that is finite, in range and has a finite non-zero stored
\* depth.
C7_ProjectUnproject ==
    (/\ ret.op = "project" /\ ret.src # <<>>
     /\ Agree(SelfF)
     /\ ~IsNone(SelfF.K) /\ ~IsNone(SelfF.R) /\ ~IsNone(SelfF.T)
     /\ Det(SelfF.K.data) # Num(0)
     /\ Orthonormal(SelfF.R.data)) =>
        /\ ret.err = ""
        /\ \A j \in 1..Len(ret.src[1]) :
             (/\ Inside(ret.src[1][j], ret.src[2][j], shape(heap, views[ret.self]))
              /\ DepthUsable(SelfF.depth, ret.src[1][j], ret.src[2][j])) =>
                 /\ ret.res[1][j] = ret.src[1][j]
                 /\ ret.res[2][j] = ret.src[2][j]

\* the round trip of the pixel (1/2, 1/2) under the camera with skew
C7_RoundTripDone ==
    /\ ret.op = "project" /\ ret.err = ""
    /\ ret.src = <<<<Fin(1, 2)>>, <<Fin(1, 2)>>>>
    /\ Agree(SelfF)
    /\ SelfF.K.data = MainK("float32").data
    /\ SelfF.R.data = MainR("float32").data
    /\ DepthUsable(SelfF.depth, Fin(1, 2), Fin(1, 2))
    /\ ret.res = <<<<Fin(1, 2)>>, <<Fin(1, 2)>>>>

\* C8: when the constructed view's bitmap, depth and mask share one
\* extent, so do the bitmap, depth and mask of every view that scale, pad
\* and to have produced from it, through any sequence of calls.
C8_CommonExtent ==
    (Len(views) >= 1 /\ Agree(Fields(heap, views[1]))) =>
        \A i \in 1..Len(views) : Agree(Fields(heap, views[i]))

\* a view padded from a view scaled from the constructed one, the three of
\* different extents, each with one extent for its three rasters
C8_ScaledThenPadded ==
    /\ Len(views) = 3 /\ ret.op = "pad" /\ ret.self = 2 /\ ret.out = 3
    /\ \A i \in 1..3 : Agree(Fields(heap, views[i]))
    /\ shape(heap, views[2]) # shape(heap, views[1])
    /\ shape(heap, views[3]) # shape(heap, views[2])

\* the calls the specification describes as pure
PureOps ==
    {"scale", "pad", "project", "unproject", "fetch_depth", "in_range_mask"}

\* C9: scale, pad, project, unproject, fetch_depth and in_range_mask leave
\* every field of every existing view (the receiver included) as it was;
\* scale and pad return a new instance holding the receiver's R and T (and
\* K, for pad); a to() changes no field of any view but its receiver, so
\* none of the view the receiver was derived from.
C9_FrameOfCalls ==
    [][/\ ret'.op \in PureOps =>
            \A i \in 1..Len(views) :
                /\ views'[i] = views[i]
                /\ Fields(heap', views'[i]) = Fields(heap, views[i])
       /\ (ret'.op \in {"scale", "pad"} /\ ret'.err = "") =>
            /\ ret'.out = Len(views) + 1 /\ Len(views') = Len(views) + 1
            /\ views'[ret'.out].R = views[ret'.self].R
            /\ views'[ret'.out].T = views[ret'.self].T
            /\ Fields(heap', views'[ret'.out]).R = Fields(heap, views[ret'.self]).R
            /\ Fields(heap', views'[ret'.out]).T = Fields(heap, views[ret'.self]).T
            /\ ret'.op = "pad" =>
                 /\ views'[ret'.out].K = views[ret'.self].K
                 /\ Fields(heap', views'[ret'.out]).K = Fields(heap, views[ret'.self]).K
       /\ ret'.op = "to" =>
            \A j \in 1..Len(views) :
                j # ret'.self =>
                    /\ views'[j] = views[j]
                    /\ Fields(heap', views'[j]) = Fields(heap, views[j])
      ]_vars

\* to() converted a derived view, which shared R with the constructed view,
\* to another dtype: the two now hold different R objects, the constructed
\* view's being of its old dtype
C9_DerivedConverted ==
    /\ Len(views) >= 2 /\ ret.op = "to" /\ ret.self = 2 /\ ret.err = ""
    /\ views[1].R # 0 /\ views[2].R # 0
    /\ views[2].R # views[1].R
    /\ heap[views[2].R].dtype = ret.dtype
    /\ heap[views[1].R].dtype # ret.dtype

\* C10 as the specification states it: to() raises nothing, returns its
\* receiver, leaves bitmap untouched and replaces each of K, R, T, depth
\* and mask by the conversion of that field's own previous value, a None
\* field staying None.
C10_ToConvertsOwnFields ==
    [][ret'.op = "to" =>
         /\ ret'.err = "" /\ ret'.out = ret'.self
         /\ views'[ret'.self].bitmap = views[ret'.self].bitmap
         /\ Fields(heap', views'[ret'.self]).bitmap
              = Fields(heap, views[ret'.self]).bitmap
         /\ \A k \in 1..Len(TRANSFERRED_ATTRS) :
              LET key == TRANSFERRED_ATTRS[k]
                  old == Fields(heap, views[ret'.self])[key]
              IN  Fields(heap', views'[ret'.self])[key]
                    = (IF IsNone(old) THEN NoneT ELSE TensorTo(old, ret'.dtype))
      ]_vars

\* to() returned with R, which was None, bound to the tensor K is bound to
C10_NoneFieldFilled ==
    /\ ret.op = "to" /\ ret.err = ""
    /\ views[ret.self].R # 0
    /\ views[ret.self].R = views[ret.self].K

====
